---- MODULE Spec2Model ----
(***************************************************************************)
(* Gomoku / Renju: a model of board.c, game.c and io.c.                    *)
(*                                                                         *)
(* A game is a record with the fields of the C struct `game` (the board's  *)
(* size and grid are kept in the same record).  The grid is the flat array *)
(* of size*size bytes that board_create allocates; grid[y][x] of the C     *)
(* code is grid[y*size + x] here.  Coordinates passed to board_get are     *)
(* unsigned char, so they are taken modulo 256.  A read whose flat offset  *)
(* lies past the allocation is undefined behaviour: it yields the value    *)
(* `junk`, which every action chooses nondeterministically (one value per  *)
(* call, 3 standing for every byte that is no intersection state).         *)
(***************************************************************************)
EXTENDS Integers, Sequences, FiniteSets, TLC

\* ------------------------------------------------------------ constants
EMPTY_INTERSECTION == 0
BLACK_STONE == 1
WHITE_STONE == 2
BOARD_SIZE_15 == 15
BOARD_SIZE_17 == 17
BOARD_SIZE_19 == 19
GAME_FREESTYLE == 0
GAME_RENJU == 1
GAME_STATE_PLAYING == 0
GAME_STATE_FORBIDDEN == 1
GAME_STATE_STOPPED == 2
GAME_STATE_FINISHED == 3
INITIAL_NUM_MOVES == 16
NEEDED_CONNECTIONS == 5
ALLOWED_OPEN_FOURS == 1
MAX_STRING_LENGTH == 3
LOWEST_TWO_DIGITS == 10
\* unsigned char arithmetic is modulo UCharRange
UCharRange == 256
\* ASCII codes of the characters the coordinate conversion uses
CharA == 65
Char0 == 48
Char1 == 49
NUL == 0

\* A byte that is no intersection state (used where a run must not depend on
\* what lies past the grid).
Inert == WHITE_STONE + 1

\* Values an out-of-bounds read of the grid can yield.
Junk == {EMPTY_INTERSECTION, BLACK_STONE, WHITE_STONE, Inert}

Min(a, b) == IF a < b THEN a ELSE b
Max(a, b) == IF a > b THEN a ELSE b
ToUChar(v) == v % UCharRange

\* ---------------------------------------------------------------- board
\* The size test of board_create with every size from 15 on let through (used
\* to test FreshGame).
boardSizeAtLeast15(size) == size >= BOARD_SIZE_15

\* board_create goes on only for these sizes; for any other it ends the
\* process with exit( BOARD_SIZE_ERR ).
boardSizeValid(size) ==
    size = BOARD_SIZE_15 \/ size = BOARD_SIZE_17 \/ size = BOARD_SIZE_19

board_create(size) ==
    [off \in 0..(size * size - 1) |-> EMPTY_INTERSECTION]

\* grid[y][x] with x, y converted to unsigned char; past the allocation the
\* read yields junk.
board_get(g, x, y, junk) ==
    LET off == ToUChar(y) * g.size + ToUChar(x)
    IN  IF off < g.size * g.size THEN g.grid[off] ELSE junk

\* board_set with row and column exchanged (used to test
\* AcceptedPlacementEffect).
board_setTransposed(g, x, y, stone) ==
    [g EXCEPT !.grid[x * g.size + y] = stone]

board_set(g, x, y, stone) ==
    [g EXCEPT !.grid[y * g.size + x] = stone]

board_is_full(g) ==
    \A off \in 0..(g.size * g.size - 1) : g.grid[off] # EMPTY_INTERSECTION

\* ----------------------------------------------------------------- game
game_create(board_size, game_type) ==
    [size |-> board_size,
     grid |-> board_create(board_size),
     type |-> game_type,
     stone |-> BLACK_STONE,
     state |-> GAME_STATE_PLAYING,
     winner |-> EMPTY_INTERSECTION,
     moves |-> <<>>,
     moves_capacity |-> INITIAL_NUM_MOVES]

\* The cells each scan visits, in the order the loop visits them: n cells
\* from (x, y) in steps of (dx, dy).
verticalLine(g, x) == [x |-> x, y |-> 0, dx |-> 0, dy |-> 1, n |-> g.size]

horizontalLine(g, y) == [x |-> 0, y |-> y, dx |-> 1, dy |-> 0, n |-> g.size]

\* while ( y > 0 && x > 0 ) { y--; x--; }  then down-right while both < size
diagonalDownLine(g, x, y) ==
    LET m == Min(x, y)
    IN  [x |-> x - m, y |-> y - m, dx |-> 1, dy |-> 1,
         n |-> g.size - Max(x - m, y - m)]

\* while ( y < size && x > 0 ) { y++; x--; }  then up-right while x < size:
\* the test y >= 0 on an unsigned char never fails, y wraps from 0 to 255.
diagonalUpLine(g, x, y) ==
    LET k == Min(g.size - y, x)
    IN  [x |-> x - k, y |-> y + k, dx |-> 1, dy |-> -1, n |-> g.size - (x - k)]

\* The i-th cell of a scan, its coordinates held in unsigned chars.
lineX(line, i) == line.x + (i - 1) * line.dx
lineY(line, i) == ToUChar(line.y + (i - 1) * line.dy)

\* The counting loop shared by the four win checks and by overline, started
\* with the counter at `connections`: after[i] is the loop after i cells, hit
\* once the counter has reached `needed` (the function returns there and reads
\* no further cell), else with the counter the cell leaves.
countConnections(g, junk, line, connections, needed) ==
    LET after[i \in 0..line.n] ==
          IF i = 0
          THEN [hit |-> FALSE, connections |-> connections]
          ELSE LET before == after[i - 1]
               IN  IF before.hit
                   THEN before
                   ELSE IF board_get(g, lineX(line, i), lineY(line, i), junk) = g.stone
                        THEN [hit |-> before.connections + 1 = needed,
                              connections |-> before.connections + 1]
                        ELSE [hit |-> FALSE, connections |-> 0]
    IN  after[line.n]

verticalWin(g, x, junk) ==
    countConnections(g, junk, verticalLine(g, x), 0, NEEDED_CONNECTIONS).hit

horizontalWin(g, y, junk) ==
    countConnections(g, junk, horizontalLine(g, y), 0, NEEDED_CONNECTIONS).hit

diagonalDownWin(g, x, y, junk) ==
    countConnections(g, junk, diagonalDownLine(g, x, y), 0, NEEDED_CONNECTIONS).hit

diagonalUpWin(g, x, y, junk) ==
    countConnections(g, junk, diagonalUpLine(g, x, y), 0, NEEDED_CONNECTIONS).hit

lineWin(g, x, y, junk) ==
    \/ verticalWin(g, x, junk)
    \/ horizontalWin(g, y, junk)
    \/ diagonalDownWin(g, x, y, junk)
    \/ diagonalUpWin(g, x, y, junk)

\* One scan of doubleOpenFours: each time the counter reaches 4 at cell
\* (cx, cy) the code reads (cx + after[1], cy + after[2]) and
\* (cx + connections*before[1], cy + connections*before[2]).  scanned[i] is
\* the loop after i cells.
countOpenFours(g, junk, line, after, before) ==
    LET scanned[i \in 0..line.n] ==
          IF i = 0
          THEN [connections |-> 0, openFours |-> 0]
          ELSE LET s == scanned[i - 1]
                   cx == lineX(line, i)
                   cy == lineY(line, i)
                   c == s.connections + 1
               IN  IF board_get(g, cx, cy, junk) = g.stone
                   THEN IF /\ c = NEEDED_CONNECTIONS - 1
                           /\ board_get(g, cx + after[1], cy + after[2], junk)
                                = EMPTY_INTERSECTION
                           /\ board_get(g, cx + c * before[1], cy + c * before[2], junk)
                                = EMPTY_INTERSECTION
                        THEN [connections |-> c, openFours |-> s.openFours + 1]
                        ELSE [connections |-> c, openFours |-> s.openFours]
                   ELSE [connections |-> 0, openFours |-> s.openFours]
    IN  scanned[line.n].openFours

\* The flank cells as the code reads them: the vertical scan reads
\* (x + 1, i) and (x - connections, i), the horizontal scan (j, y + 1) and
\* (j, y - connections).
openFoursVertical(g, x, junk) ==
    countOpenFours(g, junk, verticalLine(g, x), <<1, 0>>, <<-1, 0>>)

openFoursHorizontal(g, y, junk) ==
    countOpenFours(g, junk, horizontalLine(g, y), <<0, 1>>, <<0, -1>>)

openFoursDiagonalDown(g, x, y, junk) ==
    countOpenFours(g, junk, diagonalDownLine(g, x, y), <<1, 1>>, <<-1, -1>>)

openFoursDiagonalUp(g, x, y, junk) ==
    countOpenFours(g, junk, diagonalUpLine(g, x, y), <<1, -1>>, <<-1, 1>>)

\* doubleOpenFours judging the open fours before the line win (used to test
\* FiveBeforeDoubleFour).
doubleOpenFoursFirst(g, x, y, junk) ==
    LET openFours == openFoursVertical(g, x, junk)
                     + openFoursHorizontal(g, y, junk)
                     + openFoursDiagonalDown(g, x, y, junk)
                     + openFoursDiagonalUp(g, x, y, junk)
    IN  IF openFours > ALLOWED_OPEN_FOURS
        THEN [g EXCEPT !.state = GAME_STATE_FORBIDDEN, !.winner = WHITE_STONE]
        ELSE IF lineWin(g, x, y, junk)
             THEN [g EXCEPT !.winner = g.stone, !.state = GAME_STATE_FINISHED]
             ELSE g

\* doubleOpenFours naming the placing colour as winner of a double four
\* (used to test ForbiddenIsBlacksInRenju).
doubleOpenFoursOwnWin(g, x, y, junk) ==
    IF lineWin(g, x, y, junk)
    THEN [g EXCEPT !.winner = g.stone, !.state = GAME_STATE_FINISHED]
    ELSE LET openFours == openFoursVertical(g, x, junk)
                          + openFoursHorizontal(g, y, junk)
                          + openFoursDiagonalDown(g, x, y, junk)
                          + openFoursDiagonalUp(g, x, y, junk)
         IN  IF openFours > ALLOWED_OPEN_FOURS
             THEN [g EXCEPT !.state = GAME_STATE_FORBIDDEN, !.winner = g.stone]
             ELSE g

doubleOpenFours(g, x, y, junk) ==
    IF lineWin(g, x, y, junk)
    THEN [g EXCEPT !.winner = g.stone, !.state = GAME_STATE_FINISHED]
    ELSE LET openFours == openFoursVertical(g, x, junk)
                          + openFoursHorizontal(g, y, junk)
                          + openFoursDiagonalDown(g, x, y, junk)
                          + openFoursDiagonalUp(g, x, y, junk)
         IN  IF openFours > ALLOWED_OPEN_FOURS
             THEN [g EXCEPT !.state = GAME_STATE_FORBIDDEN, !.winner = WHITE_STONE]
             ELSE g

\* overline demanding one stone more than six (used to test SixIsForbidden).
overlineSeven(g, x, y, junk) ==
    LET v == countConnections(g, junk, verticalLine(g, x), 0, NEEDED_CONNECTIONS + 2)
        h == countConnections(g, junk, horizontalLine(g, y), 0, NEEDED_CONNECTIONS + 2)
        dd == countConnections(g, junk, diagonalDownLine(g, x, y), h.connections,
                               NEEDED_CONNECTIONS + 2)
        du == countConnections(g, junk, diagonalUpLine(g, x, y), dd.connections,
                               NEEDED_CONNECTIONS + 2)
    IN  v.hit \/ h.hit \/ dd.hit \/ du.hit

\* The counter is reset before the horizontal scan only: the diagonal-down
\* scan starts from the count the horizontal scan ended with, the diagonal-up
\* scan from the count the diagonal-down scan ended with.
overline(g, x, y, junk) ==
    LET v == countConnections(g, junk, verticalLine(g, x), 0, NEEDED_CONNECTIONS + 1)
        h == countConnections(g, junk, horizontalLine(g, y), 0, NEEDED_CONNECTIONS + 1)
        dd == countConnections(g, junk, diagonalDownLine(g, x, y), h.connections,
                               NEEDED_CONNECTIONS + 1)
        du == countConnections(g, junk, diagonalUpLine(g, x, y), dd.connections,
                               NEEDED_CONNECTIONS + 1)
    IN  v.hit \/ h.hit \/ dd.hit \/ du.hit

\* The rule evaluation with the overline test applied to every win (used to
\* test SixWinsOutsideRenjuBlack).
placeRulesOverlineForAll(g, x, y, junk) ==
    IF lineWin(g, x, y, junk)
    THEN IF overline(g, x, y, junk)
         THEN [g EXCEPT !.winner = WHITE_STONE, !.state = GAME_STATE_FORBIDDEN]
         ELSE [g EXCEPT !.winner = g.stone, !.state = GAME_STATE_FINISHED]
    ELSE IF board_is_full(g)
         THEN [g EXCEPT !.state = GAME_STATE_FINISHED]
         ELSE [g EXCEPT !.stone = IF g.stone = BLACK_STONE
                                  THEN WHITE_STONE ELSE BLACK_STONE]

\* The rule evaluation of game_place_stone once the move is logged and the
\* stone is on the board (g is the game after board_set).
placeRules(g, x, y, junk) ==
    IF g.type = GAME_RENJU /\ g.stone = BLACK_STONE
    THEN LET d == doubleOpenFours(g, x, y, junk)
         IN  IF d.winner = BLACK_STONE /\ overline(d, x, y, junk)
             THEN [d EXCEPT !.winner = WHITE_STONE, !.state = GAME_STATE_FORBIDDEN]
             ELSE [d EXCEPT !.stone = WHITE_STONE]
    ELSE IF lineWin(g, x, y, junk)
         THEN [g EXCEPT !.winner = g.stone, !.state = GAME_STATE_FINISHED]
         ELSE IF board_is_full(g)
              THEN [g EXCEPT !.state = GAME_STATE_FINISHED]
              ELSE [g EXCEPT !.stone = IF g.stone = BLACK_STONE
                                       THEN WHITE_STONE ELSE BLACK_STONE]

\* game_place_stone logging the move before it looks at the cell (used to
\* test OccupiedRejected).
placeStoneLogsFirst(g, x, y, junk) ==
    LET playerMove == [x |-> x, y |-> y, stone |-> g.stone]
        logged == [g EXCEPT !.moves = Append(g.moves, playerMove)]
    IN  IF board_get(g, x, y, junk) # EMPTY_INTERSECTION
        THEN [ok |-> FALSE, g |-> logged]
        ELSE [ok |-> TRUE,
              g |-> placeRules(board_set(logged, x, y, g.stone), x, y, junk)]

\* game_place_stone without the test of the cell (used to test CellsSetOnce).
placeStoneOverwrites(g, x, y, junk) ==
    LET playerMove == [x |-> x, y |-> y, stone |-> g.stone]
        logged == [g EXCEPT !.moves = Append(g.moves, playerMove)]
    IN  [ok |-> TRUE, g |-> placeRules(board_set(logged, x, y, g.stone), x, y, junk)]

\* game_place_stone: ok is the value returned, g the game afterwards.
game_place_stone(g, x, y, junk) ==
    IF board_get(g, x, y, junk) # EMPTY_INTERSECTION
    THEN [ok |-> FALSE, g |-> g]
    ELSE LET playerMove == [x |-> x, y |-> y, stone |-> g.stone]
             cap == IF Len(g.moves) >= g.moves_capacity
                    THEN g.moves_capacity * 2 ELSE g.moves_capacity
             logged == [g EXCEPT !.moves = Append(g.moves, playerMove),
                                 !.moves_capacity = cap]
             placed == board_set(logged, playerMove.x, playerMove.y, playerMove.stone)
         IN  [ok |-> TRUE, g |-> placeRules(placed, x, y, junk)]

\* --------------------------------------------------- formal coordinates
\* Texts are sequences of character codes.  IsDigit/IsSpace are the character
\* classes sscanf's %d uses.
IsDigit(c) == c >= Char0 /\ c <= Char0 + 9
IsSpace(c) == c \in {9, 10, 11, 12, 13, 32}
CharPlus == 43
CharMinus == 45

\* The C string held in a buffer: the bytes before the first NUL.  `behind`
\* are the bytes that follow the buffer in memory (read only when the buffer
\* holds no NUL, which is undefined behaviour); the string ends there at the
\* latest.
RECURSIVE cString(_, _)
cString(bytes, i) ==
    IF i > Len(bytes) \/ bytes[i] = NUL THEN <<>>
    ELSE <<bytes[i]>> \o cString(bytes, i + 1)

bufferText(buf, behind) == cString(buf \o behind, 1)

\* board_formal_coord writes into the caller's buffer buf (MAX_STRING_LENGTH
\* + 1 bytes, holding whatever it held before).
board_formal_coord(size, x, y, buf) ==
    IF x >= size \/ y >= size
    THEN [ret |-> "COORDINATE_ERR", buf |-> buf]
    ELSE LET letter == ToUChar(x + CharA)
             row == ToUChar(size - y)
         IN  IF row < LOWEST_TWO_DIGITS
             THEN [ret |-> "SUCCESS",
                   buf |-> [buf EXCEPT ![1] = letter,
                                       ![2] = ToUChar(row + Char0),
                                       ![3] = NUL]]
             ELSE [ret |-> "SUCCESS",
                   buf |-> [buf EXCEPT ![1] = letter,
                                       ![2] = Char1,
                                       ![3] = row - LOWEST_TWO_DIGITS + Char0]]

\* sscanf "%d" from position i: white space is skipped, one sign is accepted,
\* then the longest run of digits is converted; no digit is a matching
\* failure.
RECURSIVE skipSpace(_, _)
skipSpace(text, i) ==
    IF i <= Len(text) /\ IsSpace(text[i]) THEN skipSpace(text, i + 1) ELSE i

RECURSIVE scanDigits(_, _, _, _)
scanDigits(text, i, n, val) ==
    IF i <= Len(text) /\ IsDigit(text[i])
    THEN scanDigits(text, i + 1, n + 1, val * 10 + (text[i] - Char0))
    ELSE [n |-> n, val |-> val]

scanInt(text, i) ==
    LET j == skipSpace(text, i)
        neg == j <= Len(text) /\ text[j] = CharMinus
        k == IF j <= Len(text) /\ text[j] \in {CharPlus, CharMinus} THEN j + 1 ELSE j
        d == scanDigits(text, k, 0, 0)
    IN  [ok |-> d.n > 0, val |-> IF neg THEN 0 - d.val ELSE d.val]

\* sscanf( formal_coord, "%c%d", x, &row ) != 2 fails; then the range tests.
board_coord(size, text) ==
    IF Len(text) = 0 \/ ~scanInt(text, 2).ok
    THEN [ret |-> "FORMAL_COORDINATE_ERR", x |-> 0, y |-> 0]
    ELSE LET c == text[1]
             row == scanInt(text, 2).val
         IN  IF \/ c < CharA
                \/ c >= CharA + size
                \/ row < 1
                \/ row > size
                \/ Len(text) > MAX_STRING_LENGTH
             THEN [ret |-> "FORMAL_COORDINATE_ERR", x |-> 0, y |-> 0]
             ELSE [ret |-> "SUCCESS", x |-> text[1] - CharA, y |-> ToUChar(size - row)]

\* ------------------------------------------------------------------- io
\* A save file: the magic token, the four numbers and the coordinate lines.
\* game_export formats every move into one stack buffer; stack.b4 is what the
\* buffer's last byte holds (board_formal_coord never writes it), stack.behind
\* the bytes that follow the buffer.
exportCoords(g, stack) ==
    [i \in 1..Len(g.moves) |->
        LET buf == board_formal_coord(g.size, g.moves[i].x, g.moves[i].y,
                                      <<NUL, NUL, NUL, stack.b4>>).buf
        IN  bufferText(buf, stack.behind)]

game_export(g, stack) ==
    [magic |-> "GA",
     size |-> g.size,
     type |-> g.type,
     state |-> g.state,
     winner |-> g.winner,
     coords |-> exportCoords(g, stack)]

\* The loop of game_import over the coordinate lines: a line board_coord
\* rejects ends the process, the value game_place_stone returns is ignored.
\* (Lines lo..hi, in order; the range is halved to keep the evaluation shallow.)
RECURSIVE importCoords(_, _, _, _, _)
importCoords(g, coords, lo, hi, junk) ==
    IF lo > hi THEN [ok |-> TRUE, g |-> g]
    ELSE IF lo = hi
         THEN LET c == board_coord(g.size, coords[lo])
              IN  IF c.ret # "SUCCESS"
                  THEN [ok |-> FALSE, g |-> g]
                  ELSE [ok |-> TRUE, g |-> game_place_stone(g, c.x, c.y, junk).g]
         ELSE LET mid == (lo + hi) \div 2
                  first == importCoords(g, coords, lo, mid, junk)
              IN  IF first.ok THEN importCoords(first.g, coords, mid + 1, hi, junk)
                  ELSE first

\* ok = FALSE is exit( FILE_INPUT_ERR ).
game_import(f, junk) ==
    IF \/ f.magic # "GA"
       \/ f.size \notin {BOARD_SIZE_15, BOARD_SIZE_17, BOARD_SIZE_19}
       \/ f.type \notin {GAME_FREESTYLE, GAME_RENJU}
       \/ f.state \notin {GAME_STATE_FORBIDDEN, GAME_STATE_STOPPED, GAME_STATE_FINISHED}
       \/ f.winner \notin {EMPTY_INTERSECTION, BLACK_STONE, WHITE_STONE}
    THEN [ok |-> FALSE, g |-> game_create(BOARD_SIZE_15, GAME_FREESTYLE)]
    ELSE LET importGame == [game_create(f.size, f.type) EXCEPT
                                !.state = f.state, !.winner = f.winner]
         IN  importCoords(importGame, f.coords, 1, Len(f.coords), junk)

\* ----------------------------------------------------------- game loop
\* (Moves lo..hi, in order; the range is halved to keep the evaluation shallow.)
RECURSIVE replayMoves(_, _, _, _, _)
replayMoves(rg, moves, lo, hi, junk) ==
    IF lo > hi THEN rg
    ELSE IF lo = hi
         THEN game_place_stone(rg, moves[lo].x, moves[lo].y, junk).g
         ELSE LET mid == (lo + hi) \div 2
                  first == replayMoves(rg, moves, lo, mid, junk)
              IN  IF Len(first.moves) >= 0
                  THEN replayMoves(first, moves, mid + 1, hi, junk)
                  ELSE first

\* The replayGame that game_replay builds and shows.
game_replay(g, junk) ==
    LET replayGame == [game_create(g.size, g.type) EXCEPT
                           !.winner = g.winner, !.state = g.state]
    IN  replayMoves(replayGame, g.moves, 1, Len(g.moves), junk)

\* The slot of the move storage game_update takes as currentMove and writes
\* the stone and the parsed coordinates to: moves[ moves_count ], counted
\* from 0.
currentMoveIndex(g) == Len(g.moves)

\* The prompt loop of game_update on a game that is playing: `input` is what
\* is left on standard input, read token by token until a stone is placed or
\* the input ends.
RECURSIVE promptLoop(_, _, _, _)
promptLoop(g, input, i, junk) ==
    IF i > Len(input)
    THEN [ret |-> FALSE, g |-> [g EXCEPT !.state = GAME_STATE_STOPPED],
          x |-> 0, y |-> 0, read |-> Len(input)]
    ELSE LET c == board_coord(g.size, input[i])
             p == game_place_stone(g, c.x, c.y, junk)
         IN  IF c.ret # "FORMAL_COORDINATE_ERR" /\ p.ok
             THEN [ret |-> TRUE, g |-> p.g, x |-> c.x, y |-> c.y, read |-> i]
             ELSE promptLoop(g, input, i + 1, junk)

\* game_update without the test of the state (used to test
\* UpdateNotPlayingIsInert).
game_updateUnguarded(g, input, junk) ==
    promptLoop(g, input, 1, junk)

\* game_update ending the game when the input ends (used to test EofStops).
game_updateFinishesOnEof(g, input, junk) ==
    IF g.state # GAME_STATE_PLAYING
    THEN [ret |-> FALSE, g |-> g, x |-> 0, y |-> 0, read |-> 0]
    ELSE LET r == promptLoop(g, input, 1, junk)
         IN  IF r.ret THEN r ELSE [r EXCEPT !.g.state = GAME_STATE_FINISHED]

\* game_update taking the end of the input as a pass: the turn goes to the
\* other player and true is returned (used to test GameLoopEnds).
game_updatePassesOnEof(g, input, junk) ==
    IF g.state # GAME_STATE_PLAYING
    THEN [ret |-> FALSE, g |-> g, x |-> 0, y |-> 0, read |-> 0]
    ELSE LET r == promptLoop(g, input, 1, junk)
         IN  IF r.ret THEN r
             ELSE [r EXCEPT !.ret = TRUE,
                            !.g = [g EXCEPT !.stone = IF g.stone = BLACK_STONE
                                                      THEN WHITE_STONE ELSE BLACK_STONE]]

\* `read` is the number of tokens taken from the input.
game_update(g, input, junk) ==
    IF g.state # GAME_STATE_PLAYING
    THEN [ret |-> FALSE, g |-> g, x |-> 0, y |-> 0, read |-> 0]
    ELSE promptLoop(g, input, 1, junk)

\* game_resume without the test of the state (used to test
\* ResumeOnlyFromStopped).
game_resumeUnchecked(g) ==
    [ok |-> TRUE, g |-> [g EXCEPT !.state = GAME_STATE_PLAYING]]

\* game_resume handing the first turn to Black (used to test ResumeContract).
game_resumeBlackFirst(g) ==
    IF g.state # GAME_STATE_STOPPED \/ (g.type # GAME_FREESTYLE /\ g.type # GAME_RENJU)
    THEN [ok |-> FALSE, g |-> g]
    ELSE [ok |-> TRUE, g |-> [g EXCEPT !.state = GAME_STATE_PLAYING,
                                       !.stone = BLACK_STONE]]

\* ok = FALSE is exit( RESUME_ERR ); otherwise the game loop runs on g.
game_resume(g) ==
    IF g.state # GAME_STATE_STOPPED \/ (g.type # GAME_FREESTYLE /\ g.type # GAME_RENJU)
    THEN [ok |-> FALSE, g |-> g]
    ELSE [ok |-> TRUE, g |-> [g EXCEPT !.state = GAME_STATE_PLAYING]]

\* ------------------------------------------------------------ positions
\* Bounds of the exploration.
MaxPlaced == 2
MaxInput == 2
MaxSaved == 24

Types == {GAME_FREESTYLE, GAME_RENJU}
BoardSizes == {BOARD_SIZE_15, BOARD_SIZE_17, BOARD_SIZE_19}

\* Black's and White's cells played in turn, Black first.
interleave(black, white) ==
    [i \in 1..(Len(black) + Len(white)) |->
        IF i % 2 = 1 THEN black[(i + 1) \div 2] ELSE white[i \div 2]]

\* A board without any run longer than two: cell (x, y) is Black when
\* (x + 2y) mod 4 < 2.  On the three board sizes Black has one cell more
\* than White.
patternCells(s, black) ==
    LET cells == [i \in 1..(s * s) |-> <<(i - 1) % s, (i - 1) \div s>>]
        wanted(c) == ((c[1] + 2 * c[2]) % 4 < 2) = black
    IN  SelectSeq(cells, wanted)

patternMoves(s) == interleave(patternCells(s, TRUE), patternCells(s, FALSE))

\* The positions play starts from: `opening` is played move by move on a
\* fresh game, `cands` are the cells the players choose from afterwards.
\* h is the last row/column.  The positions that touch the last row or column
\* are set up on every board size, the others on the smallest board.
Positions(s) ==
    LET h == s - 1
        far == << <<0, 13>>, <<2, 13>>, <<4, 13>>, <<6, 13>>, <<8, 13>>, <<10, 13>>,
                  <<12, 13>>, <<1, 11>>, <<3, 11>> >>
        pm == patternMoves(s)
    IN  { [name |-> "fresh", opening |-> <<>>,
           cands |-> {<<7, 7>>, <<h, h>>}],
          [name |-> "edge",
           opening |-> interleave(<< <<1, h>>, <<2, h - 1>>, <<3, h - 2>> >>,
                                  << <<0, 5>>, <<2, 5>>, <<4, 5>> >>),
           cands |-> {<<4, h - 3>>, <<5, h - 4>>}] }
      \cup
        IF s # BOARD_SIZE_15 THEN {}
        ELSE
        { [name |-> "top",
           opening |-> interleave(<< <<h - 4, 0>>, <<h - 3, 0>>, <<h - 2, 0>>,
                                     <<h - 1, 0>> >>,
                                  SubSeq(far, 1, 4)),
           cands |-> {<<h, 0>>, <<9, 9>>}],
          [name |-> "carry",
           opening |-> interleave(<< <<0, h>>, <<1, h - 1>>, <<h - 2, 0>>, <<h - 1, 0>>,
                                     <<5, 5>>, <<5, 6>>, <<5, 7>>, <<5, 8>>, <<h, 0>> >>,
                                  far),
           cands |-> {<<5, 9>>, <<11, 11>>}],
          [name |-> "row",
           opening |-> interleave(<< <<0, 0>>, <<1, 0>>, <<2, 0>>, <<3, 0>> >>,
                                  << <<0, 5>>, <<1, 5>>, <<2, 5>>, <<3, 5>> >>),
           cands |-> {<<4, 0>>, <<4, 5>>}],
          [name |-> "cross",
           opening |-> interleave(<< <<5, 7>>, <<6, 7>>, <<8, 7>>, <<7, 4>>, <<7, 5>>,
                                     <<7, 6>> >>,
                                  SubSeq(far, 1, 6)),
           cands |-> {<<7, 7>>, <<9, 9>>}],
          [name |-> "sixH",
           opening |-> interleave(<< <<4, 7>>, <<5, 7>>, <<6, 7>>, <<8, 7>>, <<9, 7>> >>,
                                  SubSeq(far, 1, 5)),
           cands |-> {<<7, 7>>, <<12, 2>>}],
          [name |-> "sixV",
           opening |-> interleave(<< <<7, 4>>, <<7, 5>>, <<7, 6>>, <<7, 8>>, <<7, 9>> >>,
                                  SubSeq(far, 1, 5)),
           cands |-> {<<7, 7>>, <<12, 2>>}],
          [name |-> "sixDD",
           opening |-> interleave(<< <<4, 4>>, <<5, 5>>, <<6, 6>>, <<8, 8>>, <<9, 9>> >>,
                                  SubSeq(far, 1, 5)),
           cands |-> {<<7, 7>>, <<12, 2>>}],
          [name |-> "sixDU",
           opening |-> interleave(<< <<4, 10>>, <<5, 9>>, <<6, 8>>, <<8, 6>>, <<9, 5>> >>,
                                  SubSeq(far, 1, 5)),
           cands |-> {<<7, 7>>, <<12, 2>>}],
          [name |-> "sixW",
           opening |-> interleave(SubSeq(far, 1, 5),
                                  << <<4, 7>>, <<5, 7>>, <<6, 7>>, <<8, 7>>, <<9, 7>> >>),
           cands |-> {<<7, 7>>, <<12, 2>>}],
          [name |-> "crossD",
           opening |-> interleave(<< <<5, 5>>, <<6, 6>>, <<8, 8>>, <<5, 9>>, <<6, 8>>,
                                     <<8, 6>> >>,
                                  SubSeq(far, 1, 6)),
           cands |-> {<<7, 7>>, <<9, 9>>}],
          [name |-> "fiveCross",
           opening |-> interleave(<< <<7, 3>>, <<7, 4>>, <<7, 5>>, <<7, 6>>, <<5, 5>>,
                                     <<6, 6>>, <<8, 8>>, <<5, 9>>, <<6, 8>>, <<8, 6>> >>,
                                  Append(far, <<5, 11>>)),
           cands |-> {<<7, 7>>, <<12, 2>>}],
          [name |-> "preset",
           opening |-> interleave(<< <<0, h>>, <<1, h - 1>>, <<h - 2, 0>>, <<h - 1, 0>> >>,
                                  SubSeq(far, 1, 4)),
           cands |-> {<<h, 0>>, <<9, 9>>}],
          [name |-> "twoFours",
           opening |-> interleave(<< <<1, 1>>, <<2, 2>>, <<3, 3>>, <<4, 4>>, <<9, 9>>,
                                     <<10, 10>>, <<11, 11>> >>,
                                  SubSeq(far, 1, 7)),
           cands |-> {<<12, 12>>, <<7, 7>>}],
          [name |-> "full",
           opening |-> SubSeq(pm, 1, Len(pm) - 2),
           cands |-> {pm[i] : i \in (Len(pm) - 1)..Len(pm)}] }

\* The opening is played with game_place_stone; what lies past the grid is
\* Inert while it is played.
RECURSIVE playOpening(_, _, _, _)
playOpening(g, opening, lo, hi) ==
    IF lo > hi THEN g
    ELSE IF lo = hi
         THEN game_place_stone(g, opening[lo][1], opening[lo][2], Inert).g
         ELSE LET mid == (lo + hi) \div 2
                  first == playOpening(g, opening, lo, mid)
              IN  IF Len(first.moves) >= 0
                  THEN playOpening(first, opening, mid + 1, hi)
                  ELSE first

\* What a player types for cell (x, y): the column letter and the row number
\* in decimal.
coordText(size, x, y) ==
    LET row == size - y
    IN  IF row < 10 THEN <<CharA + x, Char0 + row>>
        ELSE <<CharA + x, Char0 + (row \div 10), Char0 + (row % 10)>>

\* A text no board accepts ("A" without a row number).
BadToken == <<CharA>>

Tokens(g, cells) == {coordText(g.size, c[1], c[2]) : c \in cells} \cup {BadToken}

\* The coordinate of a cell of the rows 1 to 9 with a letter typed behind the
\* row number ("H8x").
TrailingTokens(g, cells) ==
    {Append(coordText(g.size, c[1], c[2]), CharA + 55) :
       c \in {d \in cells : g.size - d[2] < LOWEST_TWO_DIGITS}}

\* What can be left on standard input: at most MaxInput tokens.  A token that
\* is accepted ends the call, so the tokens before the last one are taken
\* among those the game rejects (the bad text, the occupied cells).
occupied(g, cells) == {c \in cells : g.grid[c[2] * g.size + c[1]] # EMPTY_INTERSECTION}

RECURSIVE rejectedPrefixes(_, _, _)
rejectedPrefixes(g, cells, n) ==
    IF n = 0 THEN {<<>>}
    ELSE LET shorter == rejectedPrefixes(g, cells, n - 1)
         IN  shorter \cup {Append(p, r) : p \in shorter,
                                          r \in Tokens(g, occupied(g, cells))}

Inputs(g, cells) ==
    IF MaxInput = 0 THEN {<<>>}
    ELSE rejectedPrefixes(g, cells, MaxInput)
         \cup {Append(p, t) : p \in rejectedPrefixes(g, cells, MaxInput - 1),
                              t \in Tokens(g, cells) \cup TrailingTokens(g, cells)}

\* What the stack buffer of game_export can hold in its last byte and behind.
CharX == CharA + 23
Stacks == {[b4 |-> NUL, behind |-> <<>>],
           [b4 |-> CharX, behind |-> <<>>],
           [b4 |-> Char0 + 7, behind |-> <<CharX>>]}

\* ---------------------------------------------------------- state machine
\* game   the active game of the running program
\* pc     "live": the game loop of gomoku/renju runs on game;
\*        "saved": the program ended after game_export wrote file;
\*        "loaded": game_import returned game (gomoku -r, replay);
\*        "replayed": game_replay ran; "exit": the process exited with an error
\* file   the save file; saved: the game as it was exported
\* replayGame  the game game_replay built
\* cands  the cells the players choose from; placed: stones placed since Init
\* last   the last operation: its arguments (input: what game_update found on
\*        standard input), result and the game before it;
\*        clean says that every result so far is the one obtained when the
\*        reads past the grid match nothing
\* stdin  what is left on standard input while game_loop runs (used by the
\*        specification of the game loop only)
\* coord  one conversion of a cell to its formal coordinate and back (used by
\*        the specification of the coordinate functions only)
VARIABLES game, pc, file, saved, replayGame, cands, placed, last, coord, stdin

vars == <<game, pc, file, saved, replayGame, cands, placed, last, coord, stdin>>

NoFile == [magic |-> "", size |-> 0, type |-> 0, state |-> 0, winner |-> 0,
           coords |-> <<>>]
NoGame == game_create(BOARD_SIZE_15, GAME_FREESTYLE)
NoCoord == [phase |-> "none", size |-> 0, x |-> 0, y |-> 0, buf |-> <<>>,
            behind |-> <<>>, ret |-> "", px |-> 0, py |-> 0]

Init ==
    \E s \in BoardSizes, ty \in Types :
      \E p \in Positions(s) :
        /\ game = playOpening(game_create(s, ty), p.opening, 1, Len(p.opening))
        /\ game.state = GAME_STATE_PLAYING
        /\ Len(game.moves) = Len(p.opening)
        /\ pc = "live"
        /\ file = NoFile
        /\ saved = NoGame
        /\ replayGame = NoGame
        /\ cands = p.cands
        /\ placed = 0
        /\ last = [op |-> "create", x |-> 0, y |-> 0, ret |-> TRUE, input |-> <<>>, read |-> 0,
                   clean |-> TRUE, pre |-> game]
        /\ coord = NoCoord
        /\ stdin = <<>>

\* A driver calls game_place_stone on the active game.
PlaceStone ==
    /\ pc = "live"
    /\ placed < MaxPlaced
    /\ \E c \in cands :
        \E inert \in {game_place_stone(game, c[1], c[2], Inert)} :
            \E junk \in Junk :
              \E r \in {IF junk = Inert THEN inert
                        ELSE game_place_stone(game, c[1], c[2], junk)} :
                  /\ game' = r.g
                  /\ placed' = IF r.ok THEN placed + 1 ELSE placed
                  /\ last' = [op |-> "place", x |-> c[1], y |-> c[2], ret |-> r.ok,
                              input |-> <<>>, read |-> 0, clean |-> (last.clean /\ r = inert),
                              pre |-> game]
    /\ UNCHANGED <<pc, file, saved, replayGame, cands, coord, stdin>>

\* One call of game_update by the game loop.
GameUpdate ==
    /\ pc = "live"
    /\ \E input \in Inputs(game, cands) :
        \E inert \in {game_update(game, input, Inert)} :
            \E junk \in Junk :
              \E r \in {IF junk = Inert THEN inert ELSE game_update(game, input, junk)} :
                  /\ r.ret => placed < MaxPlaced
                  /\ game' = r.g
                  /\ placed' = IF r.ret THEN placed + 1 ELSE placed
                  /\ last' = [op |-> "update", x |-> r.x, y |-> r.y, ret |-> r.ret,
                              input |-> input, read |-> r.read, clean |-> (last.clean /\ r = inert),
                              pre |-> game]
    /\ UNCHANGED <<pc, file, saved, replayGame, cands, coord, stdin>>

\* gomoku -r: game_resume on the imported game (or on the active one).
GameResume ==
    /\ pc \in {"live", "loaded"}
    /\ LET r == game_resume(game)
       IN  /\ game' = r.g
           /\ pc' = IF r.ok THEN "live" ELSE "exit"
           /\ last' = [op |-> "resume", x |-> 0, y |-> 0, ret |-> r.ok, input |-> <<>>, read |-> 0,
                       clean |-> last.clean, pre |-> game]
    /\ file' = NoFile
    /\ saved' = NoGame
    /\ UNCHANGED <<replayGame, cands, placed, coord, stdin>>

\* The game loop has ended (state is not playing): -o exports the game.
\* Games of up to MaxSaved moves are saved.
GameExport ==
    /\ pc = "live"
    /\ game.state # GAME_STATE_PLAYING
    /\ Len(game.moves) <= MaxSaved
    /\ \E stack \in Stacks : file' = game_export(game, stack)
    /\ saved' = game
    /\ pc' = "saved"
    /\ last' = [op |-> "export", x |-> 0, y |-> 0, ret |-> TRUE, input |-> <<>>, read |-> 0,
                clean |-> last.clean, pre |-> game]
    /\ UNCHANGED <<game, replayGame, cands, placed, coord, stdin>>

GameImport ==
    /\ pc = "saved"
    /\ \E junk \in Junk :
        \E r \in {game_import(file, junk)} :
            /\ game' = IF r.ok THEN r.g ELSE game
            /\ pc' = IF r.ok THEN "loaded" ELSE "exit"
            /\ last' = [op |-> "import", x |-> 0, y |-> 0, ret |-> r.ok, input |-> <<>>, read |-> 0,
                        clean |-> (last.clean /\ junk = Inert), pre |-> game]
    /\ UNCHANGED <<file, saved, replayGame, cands, placed, coord, stdin>>

GameReplay ==
    /\ pc = "loaded"
    /\ \E junk \in Junk :
        /\ replayGame' = game_replay(game, junk)
        /\ last' = [op |-> "replay", x |-> 0, y |-> 0, ret |-> TRUE, input |-> <<>>, read |-> 0,
                    clean |-> (last.clean /\ junk = Inert), pre |-> game]
    /\ pc' = "replayed"
    /\ UNCHANGED <<game, file, saved, cands, placed, coord, stdin>>

Next ==
    \/ PlaceStone
    \/ GameUpdate
    \/ GameResume
    \/ GameExport
    \/ GameImport
    \/ GameReplay

Spec == Init /\ [][Next]_vars

\* --------------------------------------------- save files found on disk
\* gomoku -r <file> and replay <file> read a file that anybody may have
\* written.  The file is taken as the tokens fscanf yields: the magic word,
\* the four numbers and the coordinate lines.
FileText(col, digits) == <<CharA + col>> \o digits

FileCoords ==
    LET a1 == FileText(0, <<Char1>>)
        b2 == FileText(1, <<Char0 + 2>>)
    IN  { <<>>,
          <<a1>>,
          <<a1, b2>>,
          <<a1, a1, b2>>,
          <<a1, FileText(0, <<Char0 + 5, CharX + 32>>)>>,
          <<a1, FileText(2, <<CharPlus, Char0 + 3>>)>>,
          <<a1, FileText(0, <<Char0>>)>>,
          <<a1, FileText(32, <<Char0 + 2>>)>>,
          <<a1, FileText(0, <<>>)>>,
          <<a1, FileText(0, <<Char1, Char0, Char0>>)>> }

HandFiles ==
    [magic : {"GA", "GB"},
     size : {BOARD_SIZE_15, BOARD_SIZE_15 + 1},
     type : {GAME_FREESTYLE, GAME_RENJU, GAME_RENJU + 1},
     state : {GAME_STATE_PLAYING, GAME_STATE_FORBIDDEN, GAME_STATE_STOPPED,
              GAME_STATE_FINISHED, GAME_STATE_FINISHED + 1},
     winner : {EMPTY_INTERSECTION, BLACK_STONE, WHITE_STONE, WHITE_STONE + 1},
     coords : FileCoords]

\* The program is started on a file: nothing is created yet, game_import
\* comes first.
InitFile ==
    /\ file \in HandFiles
    /\ game = NoGame
    /\ pc = "saved"
    /\ saved = NoGame
    /\ replayGame = NoGame
    /\ cands = {<<0, BOARD_SIZE_15 - 1>>, <<7, 7>>}
    /\ placed = 0
    /\ last = [op |-> "create", x |-> 0, y |-> 0, ret |-> TRUE, input |-> <<>>, read |-> 0,
               clean |-> TRUE, pre |-> NoGame]
    /\ coord = NoCoord
    /\ stdin = <<>>

SpecFile == InitFile /\ [][Next]_vars

\* ------------------------------------------------------ games created
\* A program that has not created its game yet: game_create is called with
\* the size asked for (gomoku -b <size>, or any caller of game_create).
RequestedSizes == 0..(BOARD_SIZE_19 + 1)

InitCreate ==
    /\ game = NoGame
    /\ pc = "start"
    /\ file = NoFile
    /\ saved = NoGame
    /\ replayGame = NoGame
    /\ cands = {}
    /\ placed = 0
    /\ last = [op |-> "start", x |-> 0, y |-> 0, ret |-> TRUE, input |-> <<>>, read |-> 0,
               clean |-> TRUE, pre |-> NoGame]
    /\ coord = NoCoord
    /\ stdin = <<>>

\* game_create( size, type ): board_create ends the process on a size it
\* does not know; otherwise the game loop starts on the new game.
GameCreate ==
    /\ pc = "start"
    /\ \E size \in RequestedSizes, ty \in Types :
         /\ game' = IF boardSizeValid(size) THEN game_create(size, ty) ELSE game
         /\ pc' = IF boardSizeValid(size) THEN "live" ELSE "exit"
         /\ cands' = IF boardSizeValid(size)
                     THEN {<<7, 7>>, <<size - 1, size - 1>>} ELSE {}
         /\ last' = [op |-> "game_create", x |-> size, y |-> ty,
                     ret |-> boardSizeValid(size), input |-> <<>>, read |-> 0, clean |-> TRUE,
                     pre |-> game]
    /\ UNCHANGED <<file, saved, replayGame, placed, coord, stdin>>

NextCreate ==
    \/ GameCreate
    \/ PlaceStone
    \/ GameUpdate
    \/ GameResume
    \/ GameExport
    \/ GameImport
    \/ GameReplay

SpecCreate == InitCreate /\ [][NextCreate]_vars

\* ------------------------------------------------------- the game loop
\* game_loop on a game that is playing, with a finite standard input: at most
\* MaxStream tokens, each the text of one of the cells the players choose
\* from (as typed, or with a letter behind the row number) or the bad text.
MaxStream == 3

Streams(g, cells) ==
    UNION {[1..n -> Tokens(g, cells) \cup TrailingTokens(g, cells)] : n \in 0..MaxStream}

InitLoop ==
    \E s \in BoardSizes, ty \in Types :
      \E p \in Positions(s) :
        /\ game = playOpening(game_create(s, ty), p.opening, 1, Len(p.opening))
        /\ game.state = GAME_STATE_PLAYING
        /\ Len(game.moves) = Len(p.opening)
        /\ pc = "loop"
        /\ stdin \in Streams(game, p.cands)
        /\ file = NoFile
        /\ saved = NoGame
        /\ replayGame = NoGame
        /\ cands = p.cands
        /\ placed = 0
        /\ last = [op |-> "create", x |-> 0, y |-> 0, ret |-> TRUE, input |-> <<>>,
                   read |-> 0, clean |-> TRUE, pre |-> game]
        /\ coord = NoCoord

\* One pass of the do-while of game_loop: game_update takes what it reads
\* from standard input; the loop goes on while it returns true and game_loop
\* returns when it returns false.
GameLoop ==
    /\ pc = "loop"
    /\ \E inert \in {game_update(game, stdin, Inert)} :
        \E junk \in Junk :
          \E r \in {IF junk = Inert THEN inert ELSE game_update(game, stdin, junk)} :
              /\ game' = r.g
              /\ stdin' = SubSeq(stdin, r.read + 1, Len(stdin))
              /\ pc' = IF r.ret THEN "loop" ELSE "returned"
              /\ placed' = placed + Len(r.g.moves) - Len(game.moves)
              /\ last' = [op |-> "update", x |-> r.x, y |-> r.y, ret |-> r.ret,
                          input |-> stdin, read |-> r.read,
                          clean |-> (last.clean /\ r = inert), pre |-> game]
    /\ UNCHANGED <<file, saved, replayGame, cands, coord>>

NextLoop == GameLoop

\* The loop is sequential code: a pass that can be taken is taken.  This is
\* WF_vars(GameLoop) written out: a pass can be taken exactly while pc is
\* "loop" (game_update is defined on every game and a pass either places a
\* stone or ends the loop), and the steps that change the state while pc is
\* "loop" are the passes.
LoopFairness == []<>(pc # "loop") \/ []<><<pc = "loop">>_vars

SpecLoop == InitLoop /\ [][NextLoop]_vars /\ LoopFairness

\* ------------------------------------------- the coordinate functions
\* The caller's buffer of MAX_STRING_LENGTH + 1 bytes as it is handed to
\* board_formal_coord, and the bytes that follow it in memory.
CoordBuffers ==
    {[buf |-> <<NUL, NUL, NUL, NUL>>, behind |-> <<>>],
     [buf |-> <<CharX, CharX, CharX, CharX>>, behind |-> <<>>],
     [buf |-> <<Char0 + 7, Char0 + 7, Char0 + 7, Char0 + 7>>, behind |-> <<CharX>>]}

\* The texts handed to board_coord by a caller: terminated strings of up to
\* MaxText characters over the characters that decide between its cases (the
\* first and the nineteenth column letter, a lowercase letter, digits, the
\* signs, a letter behind the digits, a blank).
MaxText == 4
CharSpace == 32
TextAlphabet ==
    {CharA, CharA + 18, CharA + 32, Char0, Char1, Char0 + 2, Char0 + 9,
     CharPlus, CharMinus, CharX + 32, CharSpace}

CoordTexts == UNION {[1..n -> TextAlphabet] : n \in 0..MaxText}

InitCoord ==
    /\ \/ \E s \in BoardSizes, b \in CoordBuffers :
          \E x \in 0..s, y \in 0..s :
            coord = [phase |-> "start", size |-> s, x |-> x, y |-> y, buf |-> b.buf,
                     behind |-> b.behind, ret |-> "", px |-> 0, py |-> 0]
       \/ \E s \in BoardSizes, text \in CoordTexts :
            coord = [phase |-> "typed", size |-> s, x |-> 0, y |-> 0, buf |-> text,
                     behind |-> <<>>, ret |-> "", px |-> 0, py |-> 0]
    /\ game = NoGame
    /\ stdin = <<>>
    /\ pc = "coord"
    /\ file = NoFile
    /\ saved = NoGame
    /\ replayGame = NoGame
    /\ cands = {}
    /\ placed = 0
    /\ last = [op |-> "create", x |-> 0, y |-> 0, ret |-> TRUE, input |-> <<>>, read |-> 0,
               clean |-> TRUE, pre |-> NoGame]

\* board_formal_coord( board, x, y, buf )
FormalCoord ==
    /\ coord.phase = "start"
    /\ LET r == board_formal_coord(coord.size, coord.x, coord.y, coord.buf)
       IN  coord' = [coord EXCEPT !.phase = IF r.ret = "SUCCESS" THEN "text" ELSE "failed",
                                  !.buf = r.buf,
                                  !.ret = r.ret]
    /\ UNCHANGED <<game, pc, file, saved, replayGame, cands, placed, last, stdin>>

\* board_coord( board, buf, &x, &y ) on the text the buffer holds
ParseCoord ==
    /\ coord.phase = "text"
    /\ LET r == board_coord(coord.size, bufferText(coord.buf, coord.behind))
       IN  coord' = [coord EXCEPT !.phase = "parsed", !.ret = r.ret,
                                  !.px = r.x, !.py = r.y]
    /\ UNCHANGED <<game, pc, file, saved, replayGame, cands, placed, last, stdin>>

\* board_coord( board, text, &x, &y ) on a text the caller supplies
ParseTyped ==
    /\ coord.phase = "typed"
    /\ LET r == board_coord(coord.size, coord.buf)
       IN  coord' = [coord EXCEPT !.phase = "read", !.ret = r.ret,
                                  !.px = r.x, !.py = r.y]
    /\ UNCHANGED <<game, pc, file, saved, replayGame, cands, placed, last, stdin>>

NextCoord ==
    \/ FormalCoord
    \/ ParseCoord
    \/ ParseTyped

SpecCoord == InitCoord /\ [][NextCoord]_vars

\* ------------------------------------------------------------ properties
\* The notions the properties are stated with, read off the board itself.
onBoard(g, x, y) == x >= 0 /\ x < g.size /\ y >= 0 /\ y < g.size

cellAt(g, x, y) == g.grid[y * g.size + x]

Axes == {<<1, 0>>, <<0, 1>>, <<1, 1>>, <<1, -1>>}

opposite(d) == <<0 - d[1], 0 - d[2]>>

\* How many cells next to (x, y) in direction d hold `stone` without a gap.
extent(g, x, y, d, stone) ==
    LET holds(k) == \A j \in 1..k :
                       /\ onBoard(g, x + j * d[1], y + j * d[2])
                       /\ cellAt(g, x + j * d[1], y + j * d[2]) = stone
    IN  CHOOSE k \in 0..g.size : holds(k) /\ ~holds(k + 1)

\* The length of the run of `stone` through (x, y) on the axis of d.
runThrough(g, x, y, d, stone) ==
    1 + extent(g, x, y, d, stone) + extent(g, x, y, opposite(d), stone)

longestRun(g, x, y, stone) ==
    LET runs == {runThrough(g, x, y, d, stone) : d \in Axes}
    IN  CHOOSE r \in runs : \A q \in runs : q <= r

\* The run through (x, y) on the axis of d is four long and the cells beyond
\* its two ends are on the board and empty.
openFour(g, x, y, d, stone) ==
    LET e1 == extent(g, x, y, d, stone)
        e2 == extent(g, x, y, opposite(d), stone)
    IN  /\ 1 + e1 + e2 = NEEDED_CONNECTIONS - 1
        /\ onBoard(g, x + (e1 + 1) * d[1], y + (e1 + 1) * d[2])
        /\ cellAt(g, x + (e1 + 1) * d[1], y + (e1 + 1) * d[2]) = EMPTY_INTERSECTION
        /\ onBoard(g, x - (e2 + 1) * d[1], y - (e2 + 1) * d[2])
        /\ cellAt(g, x - (e2 + 1) * d[1], y - (e2 + 1) * d[2]) = EMPTY_INTERSECTION

\* The last operation placed a stone: game_place_stone returned true, called
\* directly or by game_update.
Placed == last.op \in {"place", "update"} /\ last.ret

\* The last operation placed a stone on a game that was playing.
PlacedInPlay == Placed /\ last.pre.state = GAME_STATE_PLAYING

\* The colour of the stone the last operation placed.
placedStone == last.pre.stone

sameBoard(g1, g2) == g1.size = g2.size /\ g1.grid = g2.grid

\* C1: in Freestyle (either colour) and for White in Renju, a placement that
\* leaves five stones of the placing colour in a row on an axis through the
\* placed cell finishes the game with that colour as winner, and a placement
\* that leaves no such five never makes the placing colour the winner.
LineWinDecided ==
    (PlacedInPlay /\ (game.type = GAME_FREESTYLE \/ placedStone = WHITE_STONE))
    => IF longestRun(game, last.x, last.y, placedStone) >= NEEDED_CONNECTIONS
       THEN game.state = GAME_STATE_FINISHED /\ game.winner = placedStone
       ELSE game.winner # placedStone

\* C2: in Renju a Black placement that leaves five Black stones in a row on an
\* axis and six or more on no axis finishes the game with Black as winner; it
\* is not made forbidden.  (Stated for the runs in which no result rests
\* on a read past the grid.)
FiveIsNotOverline ==
    (/\ PlacedInPlay
     /\ last.clean
     /\ game.type = GAME_RENJU
     /\ placedStone = BLACK_STONE
     /\ longestRun(game, last.x, last.y, BLACK_STONE) = NEEDED_CONNECTIONS)
    => (game.state = GAME_STATE_FINISHED /\ game.winner = BLACK_STONE)

\* C3: in Renju a Black placement that completes six (or more) Black stones in
\* a row on one of the four axes through the placed cell makes the game
\* forbidden with White as winner, whatever lies past the grid.
SixIsForbidden ==
    (/\ Placed
     /\ game.type = GAME_RENJU
     /\ placedStone = BLACK_STONE
     /\ longestRun(game, last.x, last.y, BLACK_STONE) > NEEDED_CONNECTIONS)
    => (game.state = GAME_STATE_FORBIDDEN /\ game.winner = WHITE_STONE)

\* A Black stone completed six in a row on the diagonal-up axis of a Renju
\* game that was playing, and the game is forbidden.
SixOnDiagonalUpSeen ==
    /\ PlacedInPlay
    /\ game.type = GAME_RENJU
    /\ placedStone = BLACK_STONE
    /\ runThrough(game, last.x, last.y, <<1, -1>>, BLACK_STONE) = NEEDED_CONNECTIONS + 1
    /\ game.state = GAME_STATE_FORBIDDEN
    /\ game.winner = WHITE_STONE

\* C4: in Renju a Black placement that completes open fours on two different
\* axes through the placed cell, and no five in a row, makes the game
\* forbidden with White as winner.  (Stated for the runs in which no result
\* rests on a read past the grid.)
DoubleFourForbidden ==
    (/\ PlacedInPlay
     /\ last.clean
     /\ game.type = GAME_RENJU
     /\ placedStone = BLACK_STONE
     /\ longestRun(game, last.x, last.y, BLACK_STONE) < NEEDED_CONNECTIONS
     /\ Cardinality({d \in Axes : openFour(game, last.x, last.y, d, BLACK_STONE)}) >= 2)
    => (game.state = GAME_STATE_FORBIDDEN /\ game.winner = WHITE_STONE)

\* C5: a placement that fills the last empty cell ends the game: the state is
\* Finished, with no winner when no axis through the placed cell holds five
\* in a row; the board is never full while the state is Playing.  (Stated for
\* the runs in which no result rests on a read past the grid.)
FullBoardIsDraw ==
    (PlacedInPlay /\ last.clean /\ board_is_full(game))
    => /\ game.state = GAME_STATE_FINISHED
       /\ longestRun(game, last.x, last.y, placedStone) < NEEDED_CONNECTIONS
            => game.winner = EMPTY_INTERSECTION

\* C6: game_place_stone on a cell that is not empty returns false and leaves
\* the board, the move log, state, winner and the stone to move as they were.
OccupiedRejected ==
    /\ (last.op = "place" /\ cellAt(last.pre, last.x, last.y) # EMPTY_INTERSECTION)
         => ~last.ret
    /\ (last.op = "place" /\ ~last.ret)
         => /\ sameBoard(game, last.pre)
            /\ game.moves = last.pre.moves
            /\ game.state = last.pre.state
            /\ game.winner = last.pre.winner
            /\ game.stone = last.pre.stone

\* game_place_stone was called on an occupied cell of a game with moves in its
\* log and returned false.
OccupiedRejectedSeen ==
    /\ last.op = "place"
    /\ cellAt(last.pre, last.x, last.y) # EMPTY_INTERSECTION
    /\ Len(last.pre.moves) > 0
    /\ ~last.ret

\* The stack buffer of game_export holding zero bytes: every text written is
\* terminated.
TerminatedStack == [b4 |-> NUL, behind |-> <<>>]

\* C7: exporting a game and importing the file yields a game with the same
\* board, type, state and winner.  (Stated for the files whose texts are all
\* terminated and the runs in which no result rests on a read past the grid.)
ExportImportRoundTrip ==
    (last.op = "import" /\ last.clean /\ file = game_export(saved, TerminatedStack))
    => /\ last.ret
       /\ sameBoard(game, saved)
       /\ game.type = saved.type
       /\ game.state = saved.state
       /\ game.winner = saved.winner

\* C8: the game game_replay builds from an exported and imported game ends
\* with that game's state, winner and board.  (Stated for the runs in which
\* no result rests on a read past the grid.)
ReplayReproduces ==
    (last.op = "replay" /\ last.clean)
    => /\ replayGame.state = game.state
       /\ replayGame.winner = game.winner
       /\ sameBoard(replayGame, game)

\* C9: for every cell (x, y) of a board, board_coord applied to the text
\* board_formal_coord produced for (x, y) succeeds and returns (x, y).
CoordRoundTrip ==
    /\ (coord.phase = "failed") => (coord.x >= coord.size \/ coord.y >= coord.size)
    /\ (coord.phase = "parsed")
         => (coord.ret = "SUCCESS" /\ coord.px = coord.x /\ coord.py = coord.y)

\* C10: once the state is Finished or Forbidden no game_place_stone,
\* game_update or game_resume changes state, winner, board or move log, and a
\* game that is Stopped only moves to Playing.  (Stated for the runs in
\* which no result rests on a read past the grid.)
TerminalStatesStay ==
    (last.op \in {"place", "update", "resume"} /\ last.clean)
    => /\ last.pre.state \in {GAME_STATE_FINISHED, GAME_STATE_FORBIDDEN}
            => /\ game.state = last.pre.state
               /\ game.winner = last.pre.winner
               /\ sameBoard(game, last.pre)
               /\ game.moves = last.pre.moves
       /\ last.pre.state = GAME_STATE_STOPPED
            => game.state \in {GAME_STATE_STOPPED, GAME_STATE_PLAYING}

\* C11: the winner is Black or White only in the states Finished and
\* Forbidden; a game that is Playing or Stopped has no winner.  This holds for
\* fresh games and for games game_import built from a file it accepted,
\* whatever is done with them afterwards.
WinnerOnlyWhenEnded ==
    game.winner # EMPTY_INTERSECTION
    => game.state \in {GAME_STATE_FINISHED, GAME_STATE_FORBIDDEN}

\* C12: the move log is as long as the number of cells that hold a stone,
\* its moves are Black, White, Black, ... in turn (the first is Black), and
\* the cell of every logged move holds the stone logged.  (Stated for the
\* runs in which no result rests on a read past the grid.)
LogMatchesBoard ==
    last.clean
    => /\ Len(game.moves)
            = Cardinality({off \in DOMAIN game.grid :
                             game.grid[off] # EMPTY_INTERSECTION})
       /\ \A i \in 1..Len(game.moves) :
            /\ game.moves[i].stone = (IF i % 2 = 1 THEN BLACK_STONE ELSE WHITE_STONE)
            /\ cellAt(game, game.moves[i].x, game.moves[i].y) = game.moves[i].stone

\* C13: a game that is not Playing becomes Playing only by game_resume on a
\* Stopped game: game_place_stone and game_update never make a game Playing
\* that was not, and the games game_import and game_replay build are not
\* Playing.
ResumeOnlyFromStopped ==
    /\ (/\ last.op \in {"place", "update", "resume"}
        /\ last.pre.state # GAME_STATE_PLAYING
        /\ game.state = GAME_STATE_PLAYING)
         => (last.op = "resume" /\ last.pre.state = GAME_STATE_STOPPED)
    /\ (last.op = "import" /\ last.ret) => game.state # GAME_STATE_PLAYING
    /\ last.op = "replay" => replayGame.state # GAME_STATE_PLAYING

\* game_resume took a Stopped game back to Playing and the game loop runs.
ResumedFromStopped ==
    /\ last.op = "resume"
    /\ last.pre.state = GAME_STATE_STOPPED
    /\ game.state = GAME_STATE_PLAYING
    /\ pc = "live"

\* C14: game_resume on a game that is not Stopped (or of no known type)
\* exits with the resume error and changes nothing; on a Stopped game it sets
\* the state to Playing and leaves board, move log, stone to move and winner
\* as they were.
ResumeContract ==
    last.op = "resume"
    => IF last.pre.state # GAME_STATE_STOPPED \/ last.pre.type \notin Types
       THEN ~last.ret /\ pc = "exit" /\ game = last.pre
       ELSE /\ last.ret
            /\ game.state = GAME_STATE_PLAYING
            /\ sameBoard(game, last.pre)
            /\ game.moves = last.pre.moves
            /\ game.stone = last.pre.stone
            /\ game.winner = last.pre.winner

\* game_resume was refused on a Finished game with moves in its log.
ResumeRefusedSeen ==
    /\ last.op = "resume"
    /\ last.pre.state = GAME_STATE_FINISHED
    /\ Len(last.pre.moves) > 0
    /\ ~last.ret
    /\ pc = "exit"

\* The coordinate grammar of a board of size s: a column letter of the board
\* followed by one or two decimal digits that make a row number in 1..s.
rowNumber(digits) ==
    IF Len(digits) = 1 THEN digits[1] - Char0
    ELSE (digits[1] - Char0) * 10 + (digits[2] - Char0)

validCoordText(s, text) ==
    /\ Len(text) >= 2
    /\ Len(text) <= MAX_STRING_LENGTH
    /\ text[1] >= CharA
    /\ text[1] < CharA + s
    /\ \A i \in 2..Len(text) : IsDigit(text[i])
    /\ rowNumber(SubSeq(text, 2, Len(text))) >= 1
    /\ rowNumber(SubSeq(text, 2, Len(text))) <= s

wellFormedFile(f) ==
    /\ f.magic = "GA"
    /\ f.size \in BoardSizes
    /\ f.type \in Types
    /\ f.state \in {GAME_STATE_FORBIDDEN, GAME_STATE_STOPPED, GAME_STATE_FINISHED}
    /\ f.winner \in {EMPTY_INTERSECTION, BLACK_STONE, WHITE_STONE}
    /\ \A k \in 1..Len(f.coords) : validCoordText(f.size, f.coords[k])

\* C15: game_import fails, returning no game, for every file whose magic
\* word is not GA, whose size, type, state or winner is outside its set, or
\* that holds a coordinate line outside the coordinate grammar of its board.
ImportRejectsBadFiles ==
    (last.op = "import" /\ ~wellFormedFile(file)) => (~last.ret /\ pc = "exit")

\* C16: the file game_export writes holds the header of the game and one
\* line per logged move, line k being the formal coordinate of move k.
ExportListsMoves ==
    last.op = "export"
    => /\ file.magic = "GA"
       /\ file.size = saved.size
       /\ file.type = saved.type
       /\ file.state = saved.state
       /\ file.winner = saved.winner
       /\ Len(file.coords) = Len(saved.moves)
       /\ \A k \in 1..Len(saved.moves) :
            file.coords[k] = coordText(saved.size, saved.moves[k].x, saved.moves[k].y)

\* C17: game_update on a game that is not Playing returns false, reads no
\* input and leaves the game as it was.
UpdateNotPlayingIsInert ==
    (last.op = "update" /\ last.pre.state # GAME_STATE_PLAYING)
    => (~last.ret /\ last.read = 0 /\ game = last.pre)

\* game_update was called on a Finished game with moves in its log.
UpdateOnFinishedSeen ==
    /\ last.op = "update"
    /\ last.pre.state = GAME_STATE_FINISHED
    /\ Len(last.pre.moves) > 0
    /\ ~last.ret

\* C18: game_update on a Playing game returns false only when the input has
\* ended; the game is then Stopped, and board, move log, winner and stone to
\* move are as they were.
EofStops ==
    (last.op = "update" /\ last.pre.state = GAME_STATE_PLAYING /\ ~last.ret)
    => /\ game.state = GAME_STATE_STOPPED
       /\ sameBoard(game, last.pre)
       /\ game.moves = last.pre.moves
       /\ game.winner = last.pre.winner
       /\ game.stone = last.pre.stone

\* The input of game_update ended after tokens that were rejected, on a
\* Playing game with moves in its log, and the game is Stopped.
EofAfterRejectedSeen ==
    /\ last.op = "update"
    /\ last.pre.state = GAME_STATE_PLAYING
    /\ Len(last.pre.moves) > 0
    /\ last.read > 0
    /\ ~last.ret
    /\ game.state = GAME_STATE_STOPPED

\* C19: board_coord succeeds exactly on the texts of the coordinate grammar
\* of the board and returns the formal-coordinate error on every other text.
CoordGrammar ==
    coord.phase = "read"
    => IF validCoordText(coord.size, coord.buf)
       THEN coord.ret = "SUCCESS"
       ELSE coord.ret = "FORMAL_COORDINATE_ERR"

\* C20: for a cell of the board board_formal_coord leaves in the buffer the
\* terminated text of the column letter and the row number in decimal,
\* whatever the buffer held; for x or y off the board it returns the
\* coordinate error.
FormalCoordComplete ==
    coord.phase \in {"text", "failed"}
    => IF coord.x >= coord.size \/ coord.y >= coord.size
       THEN coord.ret = "COORDINATE_ERR"
       ELSE /\ coord.ret = "SUCCESS"
            /\ bufferText(coord.buf, coord.behind)
                 = coordText(coord.size, coord.x, coord.y)

otherStone(stone) == IF stone = BLACK_STONE THEN WHITE_STONE ELSE BLACK_STONE

\* C21: in Freestyle (either colour) and for White in Renju a placement that
\* leaves six or more stones of the placing colour in a row through the
\* placed cell is a win: the state is Finished and the placing colour is the
\* winner; it is never made Forbidden.
SixWinsOutsideRenjuBlack ==
    (/\ Placed
     /\ (game.type = GAME_FREESTYLE \/ placedStone = WHITE_STONE)
     /\ longestRun(game, last.x, last.y, placedStone) > NEEDED_CONNECTIONS)
    => (game.state = GAME_STATE_FINISHED /\ game.winner = placedStone)

\* White completed six in a row in a Renju game that was playing and won.
WhiteSixInRenjuSeen ==
    /\ PlacedInPlay
    /\ game.type = GAME_RENJU
    /\ placedStone = WHITE_STONE
    /\ runThrough(game, last.x, last.y, <<1, 0>>, WHITE_STONE) = NEEDED_CONNECTIONS + 1
    /\ game.state = GAME_STATE_FINISHED
    /\ game.winner = WHITE_STONE

FreshGame ==
    last.op = "game_create"
    => IF last.x \in {BOARD_SIZE_15, BOARD_SIZE_17, BOARD_SIZE_19}
       THEN /\ last.ret
            /\ pc = "live"
            /\ game.size = last.x
            /\ game.type = last.y
            /\ DOMAIN game.grid = 0..(last.x * last.x - 1)
            /\ \A off \in DOMAIN game.grid : game.grid[off] = EMPTY_INTERSECTION
            /\ game.moves = <<>>
            /\ game.state = GAME_STATE_PLAYING
            /\ game.stone = BLACK_STONE
            /\ game.winner = EMPTY_INTERSECTION
       ELSE ~last.ret /\ pc = "exit" /\ game = last.pre

\* game_create was asked for a board one larger than the largest and failed.
OversizeRefusedSeen ==
    /\ last.op = "game_create"
    /\ last.x = BOARD_SIZE_19 + 1
    /\ ~last.ret
    /\ pc = "exit"

\* C24: the stone to move changes only by an accepted placement after which
\* the game goes on, and then to the other colour; an accepted placement that
\* ends the game leaves it at the colour that moved, and so does every call
\* that places nothing.  (Stated for games that were playing and the runs in
\* which no result rests on a read past the grid.)
StoneFlipsOnlyInPlay ==
    (/\ last.op \in {"place", "update", "resume"}
     /\ last.clean
     /\ last.pre.state = GAME_STATE_PLAYING \/ last.op = "resume")
    => IF Placed /\ game.state = GAME_STATE_PLAYING
       THEN game.stone = otherStone(last.pre.stone)
       ELSE game.stone = last.pre.stone

\* C25: game_place_stone on an empty cell returns true, whatever state the
\* placement leads to; an accepted placement appends the one move {x, y,
\* stone to move} to the log, sets cell (x, y) to that stone and leaves every
\* other cell and every earlier log entry as it was.
AcceptedPlacementEffect ==
    /\ (last.op = "place" /\ cellAt(last.pre, last.x, last.y) = EMPTY_INTERSECTION)
         => last.ret
    /\ Placed
         => /\ cellAt(last.pre, last.x, last.y) = EMPTY_INTERSECTION
            /\ game.moves = Append(last.pre.moves,
                                   [x |-> last.x, y |-> last.y, stone |-> last.pre.stone])
            /\ game.size = last.pre.size
            /\ game.grid = [last.pre.grid EXCEPT
                               ![last.y * last.pre.size + last.x] = last.pre.stone]

\* A placement off the main diagonal was accepted and ended a game that was
\* playing.
AcceptedEndingSeen ==
    /\ PlacedInPlay
    /\ last.x # last.y
    /\ game.state = GAME_STATE_FINISHED
    /\ Len(game.moves) = Len(last.pre.moves) + 1

\* C26: no call of game_place_stone, game_update or game_resume empties a
\* cell that holds a stone or changes its colour, and none changes the size of
\* the board or the type of the game.
CellsSetOnce ==
    last.op \in {"place", "update", "resume"}
    => /\ game.size = last.pre.size
       /\ game.type = last.pre.type
       /\ DOMAIN game.grid = DOMAIN last.pre.grid
       /\ \A off \in DOMAIN last.pre.grid :
            last.pre.grid[off] # EMPTY_INTERSECTION
            => game.grid[off] = last.pre.grid[off]

\* game_update placed a stone after a token for an occupied cell (or a bad
\* text) had been turned down.
PlacedAfterRejectedSeen ==
    /\ last.op = "update"
    /\ last.ret
    /\ last.read > 1
    /\ Len(last.pre.moves) > 0

\* The open fours of `stone` on the axis of d through (x, y): the runs of
\* exactly four whose two neighbouring cells on that axis are on the board and
\* empty, each counted at its last cell in direction d.
openFoursOnAxis(g, x, y, d, stone) ==
    Cardinality({k \in (1 - g.size)..(g.size - 1) :
        /\ onBoard(g, x + k * d[1], y + k * d[2])
        /\ cellAt(g, x + k * d[1], y + k * d[2]) = stone
        /\ extent(g, x + k * d[1], y + k * d[2], d, stone) = 0
        /\ openFour(g, x + k * d[1], y + k * d[2], d, stone)})

\* C27: on each of the four axes the open-four detection counts a run of four
\* Black stones exactly when the two cells next to its ends on that axis are
\* empty.  (The scans are taken on the board left by a Black placement in
\* Renju that completes no five, with nothing past the grid read as empty or
\* as a stone.)
OpenFourFlanksOnAxis ==
    (/\ PlacedInPlay
     /\ game.type = GAME_RENJU
     /\ placedStone = BLACK_STONE
     /\ longestRun(game, last.x, last.y, BLACK_STONE) < NEEDED_CONNECTIONS)
    => LET g == [game EXCEPT !.stone = BLACK_STONE]
       IN  /\ openFoursVertical(g, last.x, Inert)
                = openFoursOnAxis(g, last.x, last.y, <<0, 1>>, BLACK_STONE)
           /\ openFoursHorizontal(g, last.y, Inert)
                = openFoursOnAxis(g, last.x, last.y, <<1, 0>>, BLACK_STONE)
           /\ openFoursDiagonalDown(g, last.x, last.y, Inert)
                = openFoursOnAxis(g, last.x, last.y, <<1, 1>>, BLACK_STONE)
           /\ openFoursDiagonalUp(g, last.x, last.y, Inert)
                = openFoursOnAxis(g, last.x, last.y, <<1, -1>>, BLACK_STONE)

\* Every cell a scan visits lies on the board.
lineOnBoard(g, line) ==
    \A i \in 1..line.n : onBoard(g, lineX(line, i), lineY(line, i))

\* C28: the scans of an accepted placement read cells of the board only.
\* (Stated for the four scans of the win check of a placement after which the
\* game goes on: none of them has returned early, each has read its whole
\* line.)
ScansStayOnBoard ==
    (PlacedInPlay /\ game.state = GAME_STATE_PLAYING)
    => /\ lineOnBoard(game, verticalLine(game, last.x))
       /\ lineOnBoard(game, horizontalLine(game, last.y))
       /\ lineOnBoard(game, diagonalDownLine(game, last.x, last.y))
       /\ lineOnBoard(game, diagonalUpLine(game, last.x, last.y))

PresetWinnerIrrelevant ==
    (/\ last.op = "place"
     /\ last.ret
     /\ last.clean
     /\ last.pre.type = GAME_RENJU
     /\ last.pre.stone = BLACK_STONE
     /\ last.pre.state # GAME_STATE_FORBIDDEN)
    => \A w \in {EMPTY_INTERSECTION, BLACK_STONE, WHITE_STONE},
          s \in {GAME_STATE_PLAYING, GAME_STATE_STOPPED, GAME_STATE_FINISHED} :
         LET v == game_place_stone([last.pre EXCEPT !.winner = w, !.state = s],
                                   last.x, last.y, Inert).g
         IN  /\ sameBoard(v, game)
             /\ v.stone = game.stone
             /\ (v.state = GAME_STATE_FORBIDDEN) = (game.state = GAME_STATE_FORBIDDEN)

\* C31: a Black placement in Renju is made Forbidden as a double four only
\* if the placed stone belongs to open fours on at least two axes.  (Stated
\* for placements that complete no five, so that Forbidden is the verdict of
\* the open-four detection, and for the runs in which no result rests on a
\* read past the grid.)
DoubleFourThroughPlaced ==
    (/\ PlacedInPlay
     /\ last.clean
     /\ game.type = GAME_RENJU
     /\ placedStone = BLACK_STONE
     /\ longestRun(game, last.x, last.y, BLACK_STONE) < NEEDED_CONNECTIONS
     /\ game.state = GAME_STATE_FORBIDDEN)
    => Cardinality({d \in Axes : openFour(game, last.x, last.y, d, BLACK_STONE)}) >= 2

\* g is a game legal play produces: its moves, placed in order on a fresh
\* game of its size and type, each find the game playing, and g is the game
\* after the last of them, as it is or stopped by the end of the input.
legallyPlayed(g) ==
    LET n == Len(g.moves)
        cells == [i \in 1..n |-> <<g.moves[i].x, g.moves[i].y>>]
        fresh == game_create(g.size, g.type)
        before == playOpening(fresh, cells, 1, n - 1)
        after == IF n = 0 THEN fresh
                 ELSE game_place_stone(before, cells[n][1], cells[n][2], Inert).g
    IN  /\ before.state = GAME_STATE_PLAYING
        /\ Len(after.moves) = n
        /\ \/ g = after
           \/ after.state = GAME_STATE_PLAYING
              /\ g = [after EXCEPT !.state = GAME_STATE_STOPPED]

\* C32: exporting a game that legal play produced and importing the file
\* yields a game with the same move log (length, cells and colours) and the
\* same stone to move.  (Stated for the files whose texts are all terminated
\* and the runs in which no result rests on a read past the grid.)
ExportImportKeepsLog ==
    (/\ last.op = "import"
     /\ last.clean
     /\ file = game_export(saved, TerminatedStack)
     /\ legallyPlayed(saved))
    => /\ last.ret
       /\ game.moves = saved.moves
       /\ game.stone = saved.stone

\* C33: after a successful game_import the move log holds one move per
\* coordinate line of the file, in the order of the file: move k is at the
\* cell line k names.  (Stated for the runs in which no result rests on a
\* read past the grid.)
ImportLogsEveryLine ==
    (last.op = "import" /\ last.ret /\ last.clean)
    => /\ Len(game.moves) = Len(file.coords)
       /\ \A k \in 1..Len(game.moves) :
            k <= Len(file.coords)
            => LET c == board_coord(game.size, file.coords[k])
               IN  game.moves[k].x = c.x /\ game.moves[k].y = c.y

\* C34: the move log never holds more moves than its storage has slots, the
\* capacity is INITIAL_NUM_MOVES times a power of two, and the slot
\* game_update writes to on a game that is playing lies below the capacity.
MoveStorageBounds ==
    /\ Len(game.moves) <= game.moves_capacity
    /\ \E k \in 0..5 : game.moves_capacity = INITIAL_NUM_MOVES * 2^k
    /\ (last.op = "update" /\ last.pre.state = GAME_STATE_PLAYING)
         => currentMoveIndex(last.pre) < last.pre.moves_capacity

\* The text names, in the coordinate grammar of g's board, a cell of g that
\* is empty.
namesEmptyCell(g, text) ==
    /\ validCoordText(g.size, text)
    /\ cellAt(g, text[1] - CharA, g.size - rowNumber(SubSeq(text, 2, Len(text))))
         = EMPTY_INTERSECTION

\* C35: game_update on a game that is playing places a stone only for an
\* input that is a valid coordinate of an empty cell: it returns true only
\* after the one stone of such an input was placed, the inputs read before
\* having changed nothing, and when it returns false board, move log, winner
\* and stone to move are as before.
RejectedInputReprompts ==
    (last.op = "update" /\ last.pre.state = GAME_STATE_PLAYING)
    => IF last.ret
       THEN /\ last.read \in 1..Len(last.input)
            /\ namesEmptyCell(last.pre, last.input[last.read])
            /\ game.moves = Append(last.pre.moves,
                                   [x |-> last.x, y |-> last.y, stone |-> last.pre.stone])
            /\ game.grid = [last.pre.grid EXCEPT
                               ![last.y * last.pre.size + last.x] = last.pre.stone]
       ELSE /\ sameBoard(game, last.pre)
            /\ game.moves = last.pre.moves
            /\ game.winner = last.pre.winner
            /\ game.stone = last.pre.stone

\* C36: game_loop on a game that is playing, with a finite input, returns;
\* when it has returned the game is Finished, Forbidden or Stopped; and once
\* a placement has ended the game the next pass returns without reading
\* input.
GameLoopEnds ==
    /\ <>(pc = "returned")
    /\ [](pc = "returned"
            => /\ game.state \in {GAME_STATE_FINISHED, GAME_STATE_FORBIDDEN,
                                  GAME_STATE_STOPPED}
               /\ last.pre.state # GAME_STATE_PLAYING
                    => (last.read = 0 /\ stdin = last.input /\ game = last.pre))
    /\ [][(pc = "loop" /\ game.state # GAME_STATE_PLAYING)
             => (pc' = "returned" /\ stdin' = stdin)]_vars

\* A placement finished the game while tokens were left on standard input,
\* and game_loop returned without reading them.
LoopLeftInputUnread ==
    /\ pc = "returned"
    /\ last.pre.state = GAME_STATE_FINISHED
    /\ last.read = 0
    /\ Len(stdin) > 0
====
